---- MODULE Spec2Model ----
(***************************************************************************)
(* Model of the cncfSlack permissions plugin of sheriff                    *)
(* (src/src/permissions/plugins/cncfSlack/index.ts).                       *)
(*                                                                         *)
(* The plugin reconciles one team's maintainers and members against a      *)
(* Slack user group: it finds the group by handle in a memoized group      *)
(* list, creates it when absent, renames it when its name is stale and     *)
(* sets its members when they differ from the ids resolved through the     *)
(* people directory.  handleTeam is an async function: each action below   *)
(* is one awaited call together with the synchronous code that follows it  *)
(* up to the next await.                                                   *)
(***************************************************************************)
EXTENDS Integers, Sequences, FiniteSets, TLC

(***************************************************************************)
(* Bounds of the model.                                                    *)
(***************************************************************************)
\* handleTeam invocations in one behaviour (over all processes)
MaxCalls == 3
\* handleTeam invocations of a behaviour of SpecRace
MaxRaceCalls == 2
\* longest list handed to englishCommaJoin in SpecJoin
MaxLen == 3

(***************************************************************************)
(* Strings.  A username is modelled by its letters (n), whether it is      *)
(* written with capitals (cap) and whether it carries the GitHub profile   *)
(* URL prefix (url), so that toLowerCase and replace act on it.            *)
(***************************************************************************)
U(n, cap, url) == [n |-> n, cap |-> cap, url |-> url]

NoUser == U("", FALSE, FALSE)

\* String.prototype.toLowerCase (index.ts:158); the URL prefix is lower case
toLowerCase(u) == [u EXCEPT !.cap = FALSE]

\* entry.github.replace('https://github.com/', '') (index.ts:74)
StripGithubPrefix(u) == [u EXCEPT !.url = FALSE]

\* .replace('//$/', '') (index.ts:74): the pattern is a string, not a regular
\* expression, so it matches only the literal text "//$/", which no
\* username or profile URL of the model contains
StripLiteralSlashes(u) == u

(***************************************************************************)
(* Pieces of a message.  A joined list of identities is a sequence of      *)
(* tokens: separators and items.  An item is a username as is ("plain"),   *)
(* a username in backticks ("code") or a Slack mention <@id> ("mention").  *)
(***************************************************************************)
Tok(k, u, id) == [k |-> k, u |-> u, id |-> id]

Comma == Tok("comma", NoUser, 0)     \* ", "
BareComma == Tok("bare", NoUser, 0)  \* ","
Ampersand == Tok("and", NoUser, 0)   \* " and "
Plain(u) == Tok("plain", u, 0)
Code(u) == Tok("code", u, 0)
Mention(id) == Tok("mention", NoUser, id)

IsItem(t) == t.k \in {"plain", "code", "mention"}

\* Array.prototype.join over token strings: the strings with sep in between
RECURSIVE JoinWith(_, _)
JoinWith(arr, sep) ==
    IF Len(arr) = 0 THEN << >>
    ELSE IF Len(arr) = 1 THEN arr[1]
    ELSE arr[1] \o sep \o JoinWith(Tail(arr), sep)

\* arr.slice(from, to) with 0-based from (inclusive) and to (exclusive)
Slice(arr, from, to) ==
    LET f == IF from < 0 THEN 0 ELSE from
        t == IF to > Len(arr) THEN Len(arr) ELSE to
    IN  IF t <= f THEN << >> ELSE SubSeq(arr, f + 1, t)

\* index.ts:82-85.  arr is a list of strings, each a token sequence
englishCommaJoin(arr) ==
    IF Len(arr) <= 1 THEN JoinWith(arr, <<BareComma>>)
    ELSE JoinWith(Slice(arr, 0, Len(arr) - 2), <<Comma>>)
             \o <<Ampersand>> \o arr[Len(arr)]

(***************************************************************************)
(* Data.                                                                   *)
(***************************************************************************)
\* TeamConfig.slack is boolean | string
SlackBool(b) == [isBool |-> TRUE, b |-> b, s |-> ""]
SlackString(s) == [isBool |-> FALSE, b |-> FALSE, s |-> s]

\* a slip in index.ts:90: the guard lets every team through
TruthyAlways(slack) == TRUE

\* JavaScript truthiness of team.slack (index.ts:90)
Truthy(slack) == IF slack.isBool THEN slack.b ELSE slack.s /= ""

alice == U("alice", FALSE, FALSE)
Alice == U("alice", TRUE, FALSE)
bob == U("bob", FALSE, FALSE)
carol == U("carol", FALSE, FALSE)

\* the teams handed to handleTeam; displayName "" stands for an unset one
InfraTeams ==
    [name : {"infra"},
     displayName : {"", "Infra Team"},
     slack : {SlackBool(TRUE)},
     maintainers : {<< >>, <<alice>>},
     members : {<<Alice>>, <<alice, bob>>, <<carol>>}]

\* teams that name their handle, and one team without Slack
OpsTeams ==
    [name : {"infra"},
     displayName : {""},
     slack : {SlackString("ops")},
     maintainers : {<< >>},
     members : {<<Alice>>, <<alice, bob>>}]

Teams ==
    InfraTeams \cup OpsTeams
        \cup {[name |-> "infra", displayName |-> "", slack |-> SlackBool(FALSE),
                maintainers |-> << >>, members |-> <<bob>>]}

NoTeam ==
    [name |-> "", displayName |-> "", slack |-> SlackBool(FALSE),
     maintainers |-> << >>, members |-> << >>]

\* people.json: CncfPerson entries (index.ts:36-42), slack_id 0 standing for ''
Person(github, slack_id) == [github |-> github, slack_id |-> slack_id]

NoPerson == Person(NoUser, 0)

PeopleFiles ==
    {<<Person(U("alice", cap, TRUE), 1), Person(bob, b), Person(carol, 0)>> :
        cap \in BOOLEAN, b \in {1, 2}}

\* UserGroup (index.ts:16-23); date_delete is never read by the plugin
UserGroup(id, name, handle, users, is_external) ==
    [id |-> id, name |-> name, handle |-> handle, users |-> users,
     is_external |-> is_external]

NoGroup == UserGroup(0, "", "", << >>, FALSE)

\* the id handleTeam gives the group it makes up in a dry run (index.ts:125)
NEW_USER_GROUP_ID == 0

\* the user groups Slack holds when a behaviour starts; a group's id is its
\* position in the list
InitialWorkspaces ==
    {<< >>,
     <<UserGroup(1, "ops", "ops", <<3>>, TRUE)>>,
     <<UserGroup(1, "infra", "infra", <<1>>, FALSE)>>,
     <<UserGroup(1, "infra", "infra", <<2, 1>>, FALSE)>>,
     <<UserGroup(1, "ops", "ops", <<3>>, TRUE),
       UserGroup(2, "old", "infra", <<3, 2>>, FALSE)>>}

(***************************************************************************)
(* Helpers standing for the JavaScript library calls the plugin makes.     *)
(***************************************************************************)
\* Map.prototype.set and Map.prototype.get; a Map is a function on its keys
MapSet(m, k, v) == [x \in (DOMAIN m) \cup {k} |-> IF x = k THEN v ELSE m[x]]

MapGet(m, k, undefined) == IF k \in DOMAIN m THEN m[k] ELSE undefined

\* Array.prototype.includes
Includes(arr, x) == \E i \in 1..Len(arr) : arr[i] = x

\* Array.prototype.sort on an array of ids
RECURSIVE Insert(_, _)
Insert(sorted, x) ==
    IF sorted = << >> THEN <<x>>
    ELSE IF x <= Head(sorted) THEN <<x>> \o sorted
    ELSE <<Head(sorted)>> \o Insert(Tail(sorted), x)

RECURSIVE Sort(_)
Sort(arr) == IF arr = << >> THEN << >> ELSE Insert(Sort(Tail(arr)), Head(arr))

\* Array.prototype.find as an index: the first group with the handle, else 0
FindByHandle(groups, handle) ==
    IF \E i \in 1..Len(groups) : groups[i].handle = handle
    THEN CHOOSE i \in 1..Len(groups) :
            /\ groups[i].handle = handle
            /\ \A j \in 1..(i - 1) : groups[j].handle /= handle
    ELSE 0

\* the ids of a sequence, as a set
Ids(arr) == {arr[i] : i \in 1..Len(arr)}

(***************************************************************************)
(* The memoized loaders (index.ts:46-80).  memoize comes from helpers,     *)
(* outside src/: it keeps the first result until invalidate() is called.   *)
(***************************************************************************)
Memo(loaded, value) == [loaded |-> loaded, value |-> value]

\* memoize(fn)(): the kept result, or fn's result when none is kept
Memoized(memo, fresh) == IF memo.loaded THEN memo ELSE Memo(TRUE, fresh)

\* memoize(fn).invalidate()
Invalidated(memo) == Memo(FALSE, << >>)

\* a slip in index.ts:51: the filter on is_external is left out
ListAllUserGroups(workspace) == workspace

\* index.ts:47-51: usergroups.list, external groups filtered out
ListUserGroups(workspace) == SelectSeq(workspace, LAMBDA g : ~g.is_external)

NoMaps == [cncfBySlackID |-> << >>, cncfByGithub |-> << >>]

\* index.ts:70-78: the loop over peopleData from entry i on
RECURSIVE IndexPeople(_, _, _)
IndexPeople(peopleData, i, maps) ==
    IF i > Len(peopleData) THEN maps
    ELSE LET entry == peopleData[i]
             stripped ==
                 [entry EXCEPT !.github =
                     StripLiteralSlashes(StripGithubPrefix(entry.github))]
         IN  IF entry.slack_id /= 0
             THEN IndexPeople(peopleData, i + 1,
                      [cncfBySlackID |->
                           MapSet(maps.cncfBySlackID, stripped.slack_id, stripped),
                       cncfByGithub |->
                           MapSet(maps.cncfByGithub, stripped.github, stripped)])
             ELSE IndexPeople(peopleData, i + 1, maps)

\* index.ts:55-79
LoadAllUsers(peopleData) == IndexPeople(peopleData, 1, NoMaps)

(***************************************************************************)
(* handleTeam (index.ts:88-214): its local variables and the synchronous   *)
(* code between its awaits.  A frame holds the locals of one invocation:   *)
(* pc names the await it is suspended at, ref is the position of           *)
(* existingGroup in the memoized array when it is one of its elements      *)
(* (0 when it is an object handleTeam built), absent tells that the search *)
(* by handle found nothing, events are the messages given to               *)
(* builder.addContext and api the Slack calls issued.  prior tells how the *)
(* invocation relates to the one before it: "repeat" when that one was of  *)
(* the same team and returned in this process, "rerun" ("retry") when it   *)
(* was of the same team and returned (threw) as the last one of the        *)
(* process before, both in live mode.                                      *)
(***************************************************************************)
IdleFrame ==
    [pc |-> "idle", team |-> NoTeam, groups |-> << >>,
     existingGroup |-> NoGroup, ref |-> 0, absent |-> FALSE,
     expectedUserIds |-> << >>, usernamesToAdd |-> << >>,
     usernamesToRemove |-> << >>, events |-> << >>, api |-> << >>,
     prior |-> "none"]

\* index.ts:95
GroupName(team) ==
    IF team.slack.isBool /\ team.slack.b THEN team.name ELSE team.slack.s

\* a slip in index.ts:96: the displayName is ignored
UserGroupNameOnly(team) == team.name

\* index.ts:96
UserGroupName(team) ==
    IF team.displayName /= "" THEN team.displayName ELSE team.name

\* the messages of builder.addContext (index.ts:99, 136, 183, 196)
Event(kind, handle, from, to, who) ==
    [kind |-> kind, handle |-> handle, from |-> from, to |-> to, who |-> who]

CreatedEvent(handle) == Event("created", handle, "", "", << >>)
RenamedEvent(handle, from, to) == Event("renamed", handle, from, to, << >>)
RemovedEvent(handle, who) == Event("removed", handle, "", "", who)
AddedEvent(handle, who) == Event("added", handle, "", "", who)

\* the calls on the Slack client (index.ts:109, 149, 209)
ApiCall(op, id, handle, name, users) ==
    [op |-> op, id |-> id, handle |-> handle, name |-> name, users |-> users]

Emit(f, ev) == [f EXCEPT !.events = Append(@, ev)]

\* a slip in index.ts:159: the loop does not skip a username without an
\* entry, and pushes the slack_id of no one
RECURSIVE ResolveFromUnskipped(_, _, _, _)
ResolveFromUnskipped(usernames, i, cncfByGithub, acc) ==
    IF i > Len(usernames) THEN acc
    ELSE LET cncfUser == MapGet(cncfByGithub, toLowerCase(usernames[i]), NoPerson)
         IN  ResolveFromUnskipped(usernames, i + 1, cncfByGithub,
                                  Append(acc, cncfUser.slack_id))

\* index.ts:156-161: the loop over maintainers.concat(members) from i on
RECURSIVE ResolveFrom(_, _, _, _)
ResolveFrom(usernames, i, cncfByGithub, acc) ==
    IF i > Len(usernames) THEN acc
    ELSE LET cncfUser == MapGet(cncfByGithub, toLowerCase(usernames[i]), NoPerson)
         IN  IF cncfUser = NoPerson
             THEN ResolveFrom(usernames, i + 1, cncfByGithub, acc)
             ELSE ResolveFrom(usernames, i + 1, cncfByGithub,
                              Append(acc, cncfUser.slack_id))

ExpectedUserIds(team, maps) ==
    ResolveFrom(team.maintainers \o team.members, 1, maps.cncfByGithub, << >>)

\* index.ts:170-174
UsernamesToAdd(expectedUserIds, users, maps) ==
    LET missing == SelectSeq(expectedUserIds, LAMBDA id : ~Includes(users, id))
    IN  [i \in 1..Len(missing) |->
            <<Plain(MapGet(maps.cncfBySlackID, missing[i], NoPerson).github)>>]

\* index.ts:175-180
UsernamesToRemove(expectedUserIds, users, maps) ==
    LET extra == SelectSeq(users, LAMBDA id : ~Includes(expectedUserIds, id))
    IN  [i \in 1..Len(extra) |->
            LET cncfUser == MapGet(maps.cncfBySlackID, extra[i], NoPerson)
            IN  IF cncfUser /= NoPerson THEN <<Code(cncfUser.github)>>
                ELSE <<Mention(extra[i])>>]

\* a slip in index.ts:208: users.update is awaited in a dry run too
ReportMembersUnguarded(c) ==
    LET f == c.f
        handle == f.existingGroup.handle
        f1 == IF Len(f.usernamesToRemove) /= 0
              THEN Emit(f, RemovedEvent(handle, englishCommaJoin(f.usernamesToRemove)))
              ELSE f
        f2 == IF Len(f.usernamesToAdd) /= 0
              THEN Emit(f1, AddedEvent(handle, englishCommaJoin(f.usernamesToAdd)))
              ELSE f1
    IN  [c EXCEPT !.f = [f2 EXCEPT !.pc = "setMembers"]]

\* index.ts:182-213, after the lists were computed: the two messages, then
\* the await of usergroups.users.update unless this is a dry run
ReportMembers(c) ==
    LET f == c.f
        handle == f.existingGroup.handle
        f1 == IF Len(f.usernamesToRemove) /= 0
              THEN Emit(f, RemovedEvent(handle, englishCommaJoin(f.usernamesToRemove)))
              ELSE f
        f2 == IF Len(f.usernamesToAdd) /= 0
              THEN Emit(f1, AddedEvent(handle, englishCommaJoin(f.usernamesToAdd)))
              ELSE f1
    IN  [c EXCEPT !.f = [f2 EXCEPT !.pc = IF c.dry THEN "done" ELSE "setMembers"]]

\* index.ts:156-213.  The two sorts are in place: existingGroup.users is the
\* array of the memoized group when existingGroup was found in the list
MembersCheck(c) ==
    LET f == c.f
        expected == Sort(ExpectedUserIds(f.team, c.users))
        users == Sort(f.existingGroup.users)
        shared == f.ref > 0 /\ c.memo.loaded /\ c.memo.value = f.groups
        f1 == [f EXCEPT !.existingGroup.users = users,
                        !.groups = IF f.ref > 0
                                   THEN [@ EXCEPT ![f.ref].users = users] ELSE @,
                        !.expectedUserIds = expected]
        c1 == [c EXCEPT !.f = f1,
                        !.memo.value = IF shared
                                       THEN [@ EXCEPT ![f.ref].users = users] ELSE @]
    IN  IF users = expected
        THEN [c1 EXCEPT !.f.pc = "done"]
        ELSE ReportMembers(
                 [c1 EXCEPT !.f.usernamesToAdd =
                                UsernamesToAdd(expected, users, c.users),
                            !.f.usernamesToRemove =
                                UsernamesToRemove(expected, users, c.users)])

\* index.ts:135-154: the name check, up to the await of usergroups.update
NameCheck(c) ==
    LET f == c.f
        userGroupName == UserGroupName(f.team)
    IN  IF f.existingGroup.name /= userGroupName
        THEN LET f1 == Emit(f, RenamedEvent(f.existingGroup.handle,
                                            f.existingGroup.name, userGroupName))
             IN  IF c.dry THEN MembersCheck([c EXCEPT !.f = f1])
                 ELSE [c EXCEPT !.f = [f1 EXCEPT !.pc = "rename"]]
        ELSE MembersCheck(c)

\* a slip in index.ts:126: the made-up group of a dry run is given the
\* team's name, not userGroupName
FindGroupNamedAfterTeam(c) ==
    LET f == c.f
        groupName == GroupName(f.team)
        found == FindByHandle(f.groups, groupName)
    IN  IF found = 0
        THEN LET f1 == [Emit(f, CreatedEvent(groupName)) EXCEPT !.absent = TRUE]
             IN  IF c.dry
                 THEN NameCheck([c EXCEPT !.f =
                          [f1 EXCEPT !.existingGroup =
                              UserGroup(NEW_USER_GROUP_ID, f.team.name,
                                        groupName, << >>, FALSE),
                                     !.ref = 0]])
                 ELSE [c EXCEPT !.f = [f1 EXCEPT !.pc = "create"]]
        ELSE NameCheck([c EXCEPT !.f = [f EXCEPT !.existingGroup = f.groups[found],
                                                 !.ref = found]])

\* index.ts:95-133: the search by handle, up to the await of
\* usergroups.create, or on to the name check
FindGroup(c) ==
    LET f == c.f
        groupName == GroupName(f.team)
        found == FindByHandle(f.groups, groupName)
    IN  IF found = 0
        THEN LET f1 == [Emit(f, CreatedEvent(groupName)) EXCEPT !.absent = TRUE]
             IN  IF c.dry
                 THEN NameCheck([c EXCEPT !.f =
                          [f1 EXCEPT !.existingGroup =
                              UserGroup(NEW_USER_GROUP_ID, UserGroupName(f.team),
                                        groupName, << >>, FALSE),
                                     !.ref = 0]])
                 ELSE [c EXCEPT !.f = [f1 EXCEPT !.pc = "create"]]
        ELSE NameCheck([c EXCEPT !.f = [f EXCEPT !.existingGroup = f.groups[found],
                                                 !.ref = found]])

\* the values the synchronous code reads and writes
Context(f, memo, users, dry) == [f |-> f, memo |-> memo, users |-> users, dry |-> dry]

(***************************************************************************)
(* State.                                                                  *)
(***************************************************************************)
VARIABLES
    people,       \* the entries of people.json
    usergroups,   \* the user groups Slack holds, by id
    IS_DRY_RUN,   \* helpers.IS_DRY_RUN of the running process
    groupsMemo,   \* the result kept by getAllGroups (index.ts:46)
    usersMemo,    \* the result kept by getAllUsers (index.ts:54)
    frames,       \* the handleTeam invocations of the running process
    invocations,  \* handleTeam invocations started so far
    usergroups0,  \* the user groups Slack held when the process started
    lastRun,      \* how the process before ended, until the first invocation
    clean,        \* no Slack call of the running process has failed
    runLog,       \* the creations the running process reported and called for
    overlapped,   \* two invocations of the running process were in flight at once
    arr,          \* SpecJoin: the argument of englishCommaJoin
    joined        \* SpecJoin: its result, once applied

vars ==
    <<people, usergroups, IS_DRY_RUN, groupsMemo, usersMemo, frames,
      invocations, usergroups0, lastRun, clean, runLog, overlapped, arr, joined>>

joinVars == <<arr, joined>>

\* the invocations that may be in flight at once
Procs == {1, 2}

NotJoined == <<Tok("none", NoUser, 0)>>

NoRun == [team |-> NoTeam, pc |-> "idle", dry |-> FALSE]

\* the entries of runLog: the "Creating" message for a handle (index.ts:99)
\* and the usergroups.create call for it (index.ts:109) with its outcome
LogCreated(handle) == [what |-> "created", handle |-> handle, ok |-> TRUE]
LogCreate(handle, ok) == [what |-> "create", handle |-> handle, ok |-> ok]

Init ==
    /\ people \in PeopleFiles
    /\ usergroups \in InitialWorkspaces
    /\ IS_DRY_RUN \in BOOLEAN
    /\ groupsMemo = Memo(FALSE, << >>)
    /\ usersMemo = Memo(FALSE, NoMaps)
    /\ frames = [p \in Procs |-> IdleFrame]
    /\ invocations = 0
    /\ usergroups0 = usergroups
    /\ lastRun = NoRun
    /\ clean = TRUE
    /\ runLog = << >>
    /\ overlapped = FALSE
    /\ arr = << >>
    /\ joined = NotJoined

Running(p) == frames[p].pc \notin {"idle", "done", "failed"}

\* how an invocation for team relates to the one before it, whose frame is f
Prior(f, team) ==
    IF IS_DRY_RUN THEN "none"
    ELSE IF f.pc = "done" /\ f.team = team THEN "repeat"
    ELSE IF f.pc = "idle" /\ lastRun.team = team /\ ~lastRun.dry
    THEN (IF lastRun.pc = "done" THEN "rerun"
          ELSE IF lastRun.pc = "failed" THEN "retry" ELSE "none")
    ELSE "none"

\* index.ts:88-92: handleTeam is called; it returns at once for a team
\* without Slack, else it awaits getAllGroups()
Call(p, team) ==
    /\ ~Running(p)
    /\ invocations < MaxCalls
    /\ invocations' = invocations + 1
    /\ frames' = [frames EXCEPT ![p] =
            [IdleFrame EXCEPT
                !.team = team,
                !.pc = IF Truthy(team.slack) THEN "groups" ELSE "done",
                !.prior = Prior(frames[p], team)]]
    /\ lastRun' = NoRun
    /\ overlapped' = (overlapped \/ \E q \in Procs \ {p} : Running(q))
    /\ UNCHANGED <<people, usergroups, IS_DRY_RUN, groupsMemo, usersMemo,
                   usergroups0, clean, runLog, joinVars>>

\* index.ts:92: getAllGroups() resolves; handleTeam awaits getAllUsers()
AwaitGroups(p) ==
    /\ frames[p].pc = "groups"
    /\ groupsMemo' = Memoized(groupsMemo, ListUserGroups(usergroups))
    /\ frames' = [frames EXCEPT ![p].groups = groupsMemo'.value,
                                ![p].pc = "users"]
    /\ UNCHANGED <<people, usergroups, IS_DRY_RUN, usersMemo, invocations,
                   usergroups0, lastRun, clean, runLog, overlapped, joinVars>>

\* index.ts:93-133: getAllUsers() resolves; the group is searched by handle
AwaitUsers(p) ==
    /\ frames[p].pc = "users"
    /\ usersMemo' = Memoized(usersMemo, LoadAllUsers(people))
    /\ LET c == FindGroup(Context(frames[p], groupsMemo, usersMemo'.value,
                                  IS_DRY_RUN))
       IN  /\ frames' = [frames EXCEPT ![p] = c.f]
           /\ groupsMemo' = c.memo
           /\ runLog' = IF c.f.absent
                         THEN Append(runLog, LogCreated(GroupName(c.f.team)))
                         ELSE runLog
    /\ UNCHANGED <<people, usergroups, IS_DRY_RUN, invocations, usergroups0, lastRun,
                   clean, overlapped, joinVars>>

\* a Slack call throws: handleTeam rejects
Fail(p, call) ==
    /\ frames' = [frames EXCEPT ![p].pc = "failed",
                                ![p].api = Append(@, call)]
    /\ clean' = FALSE

\* a slip in index.ts:121: the memoized list is not dropped after the
\* creation, so the second getAllGroups() returns the list kept
AwaitCreateKeepsList(p, ok) ==
    /\ frames[p].pc = "create"
    /\ LET f == frames[p]
           groupName == GroupName(f.team)
           userGroupName == UserGroupName(f.team)
           id == Len(usergroups) + 1
           call == ApiCall("create", 0, groupName, userGroupName, << >>)
       IN  IF ok
           THEN /\ usergroups' = Append(usergroups,
                        UserGroup(id, userGroupName, groupName, << >>, FALSE))
                /\ frames' = [frames EXCEPT
                        ![p].existingGroup =
                            UserGroup(id, userGroupName, groupName, << >>, FALSE),
                        ![p].ref = 0,
                        ![p].api = Append(@, call),
                        ![p].pc = "refetch"]
                /\ UNCHANGED <<groupsMemo, clean>>
           ELSE /\ Fail(p, call)
                /\ UNCHANGED <<usergroups, groupsMemo>>
    /\ runLog' = Append(runLog, LogCreate(GroupName(frames[p].team), ok))
    /\ UNCHANGED <<people, IS_DRY_RUN, usersMemo, invocations, usergroups0, lastRun,
                   overlapped, joinVars>>

\* index.ts:109-122: usergroups.create resolves; Slack assigns the next id;
\* the memoized list is dropped and getAllGroups() awaited again
AwaitCreate(p, ok) ==
    /\ frames[p].pc = "create"
    /\ LET f == frames[p]
           groupName == GroupName(f.team)
           userGroupName == UserGroupName(f.team)
           id == Len(usergroups) + 1
           call == ApiCall("create", 0, groupName, userGroupName, << >>)
       IN  IF ok
           THEN /\ usergroups' = Append(usergroups,
                        UserGroup(id, userGroupName, groupName, << >>, FALSE))
                /\ frames' = [frames EXCEPT
                        ![p].existingGroup =
                            UserGroup(id, userGroupName, groupName, << >>, FALSE),
                        ![p].ref = 0,
                        ![p].api = Append(@, call),
                        ![p].pc = "refetch"]
                /\ groupsMemo' = Invalidated(groupsMemo)
                /\ UNCHANGED clean
           ELSE /\ Fail(p, call)
                /\ UNCHANGED <<usergroups, groupsMemo>>
    /\ runLog' = Append(runLog, LogCreate(GroupName(frames[p].team), ok))
    /\ UNCHANGED <<people, IS_DRY_RUN, usersMemo, invocations, usergroups0, lastRun,
                   overlapped, joinVars>>

\* index.ts:122-154: the second getAllGroups() resolves; the name check
AwaitRefetch(p) ==
    /\ frames[p].pc = "refetch"
    /\ LET memo == Memoized(groupsMemo, ListUserGroups(usergroups))
           c == NameCheck(Context([frames[p] EXCEPT !.groups = memo.value],
                                  memo, usersMemo.value, IS_DRY_RUN))
       IN  /\ frames' = [frames EXCEPT ![p] = c.f]
           /\ groupsMemo' = c.memo
    /\ UNCHANGED <<people, usergroups, IS_DRY_RUN, usersMemo, invocations,
                   usergroups0, lastRun, clean, runLog, overlapped, joinVars>>

\* index.ts:149-213: usergroups.update resolves; the members check
AwaitRename(p, ok) ==
    /\ frames[p].pc = "rename"
    /\ LET f == frames[p]
           userGroupName == UserGroupName(f.team)
           call == ApiCall("update", f.existingGroup.id, "", userGroupName, << >>)
           c == MembersCheck(Context([f EXCEPT !.api = Append(@, call)],
                                     groupsMemo, usersMemo.value, IS_DRY_RUN))
       IN  IF ok
           THEN /\ usergroups' = [usergroups EXCEPT
                                     ![f.existingGroup.id].name = userGroupName]
                /\ frames' = [frames EXCEPT ![p] = c.f]
                /\ groupsMemo' = c.memo
                /\ UNCHANGED clean
           ELSE /\ Fail(p, call)
                /\ UNCHANGED <<usergroups, groupsMemo>>
    /\ UNCHANGED <<people, IS_DRY_RUN, usersMemo, invocations, usergroups0, lastRun,
                   runLog, overlapped, joinVars>>

\* the members Slack keeps for users: 'id,id,...': each id once
RECURSIVE Distinct(_)
Distinct(ids) ==
    IF ids = << >> THEN << >>
    ELSE LET rest == Distinct(SubSeq(ids, 1, Len(ids) - 1))
             last == ids[Len(ids)]
         IN  IF Includes(rest, last) THEN rest ELSE Append(rest, last)

\* index.ts:209-214: usergroups.users.update resolves; handleTeam returns
AwaitSetMembers(p, ok) ==
    /\ frames[p].pc = "setMembers"
    /\ LET f == frames[p]
           call == ApiCall("users.update", f.existingGroup.id, "", "",
                           f.expectedUserIds)
       IN  IF ok
           THEN /\ usergroups' = [usergroups EXCEPT
                        ![f.existingGroup.id].users = Distinct(f.expectedUserIds)]
                /\ frames' = [frames EXCEPT ![p].api = Append(@, call),
                                            ![p].pc = "done"]
                /\ UNCHANGED clean
           ELSE /\ Fail(p, call)
                /\ UNCHANGED usergroups
    /\ UNCHANGED <<people, IS_DRY_RUN, groupsMemo, usersMemo, invocations,
                   usergroups0, lastRun, runLog, overlapped, joinVars>>

\* the process ends and sheriff is started again: the module is loaded
\* anew, so both memoized results are empty (index.ts:46, 54)
Restart(dry) ==
    /\ \A p \in Procs : ~Running(p)
    /\ \E p \in Procs : frames[p].pc /= "idle"
    /\ invocations < MaxCalls
    /\ IS_DRY_RUN' = dry
    /\ groupsMemo' = Memo(FALSE, << >>)
    /\ usersMemo' = Memo(FALSE, NoMaps)
    /\ frames' = [p \in Procs |-> IdleFrame]
    /\ usergroups0' = usergroups
    /\ lastRun' = [team |-> frames[1].team, pc |-> frames[1].pc,
                   dry |-> IS_DRY_RUN]
    /\ clean' = TRUE
    /\ runLog' = << >>
    /\ overlapped' = FALSE
    /\ UNCHANGED <<people, usergroups, invocations, joinVars>>

\* the caller awaits each handleTeam before it calls the next: one
\* invocation at a time
Next ==
    \/ \E team \in Teams : Call(1, team)
    \/ AwaitGroups(1)
    \/ AwaitUsers(1)
    \/ \E ok \in BOOLEAN : AwaitCreate(1, ok)
    \/ AwaitRefetch(1)
    \/ \E ok \in BOOLEAN : AwaitRename(1, ok)
    \/ \E ok \in BOOLEAN : AwaitSetMembers(1, ok)
    \/ \E dry \in BOOLEAN : Restart(dry)

Spec == Init /\ [][Next]_vars

\* handleTeam is called again before the invocation before it has returned
\* (calls that are not awaited one by one): the invocations interleave at
\* their awaits.  SpecRace is one process; the teams called for are those
\* that list alice and bob, the directory resolves them to 1 and 2
RaceTeams ==
    {t \in Teams : t.maintainers = << >> /\ t.members = <<alice, bob>>}

InitRace ==
    /\ Init
    /\ people = <<Person(U("alice", FALSE, TRUE), 1), Person(bob, 2),
                  Person(carol, 0)>>

\* index.ts:88-92: handleTeam is called, whether or not another invocation
\* is in flight
CallRace(p, team) ==
    /\ invocations < MaxRaceCalls
    /\ Call(p, team)

NextRace ==
    \/ \E p \in Procs, team \in RaceTeams : CallRace(p, team)
    \/ \E p \in Procs : AwaitGroups(p)
    \/ \E p \in Procs : AwaitUsers(p)
    \/ \E p \in Procs, ok \in BOOLEAN : AwaitCreate(p, ok)
    \/ \E p \in Procs : AwaitRefetch(p)
    \/ \E p \in Procs, ok \in BOOLEAN : AwaitRename(p, ok)
    \/ \E p \in Procs, ok \in BOOLEAN : AwaitSetMembers(p, ok)

SpecRace == InitRace /\ [][NextRace]_vars

(***************************************************************************)
(* What the specification asks for, stated apart from the code above.      *)
(***************************************************************************)
\* the handle a team resolves to, and the name its group is to carry
DesiredHandle(team) == IF team.slack.isBool THEN team.name ELSE team.slack.s

DesiredName(team) == IF team.displayName = "" THEN team.name ELSE team.displayName

\* the usernames a team lists
Listed(team) ==
    {(team.maintainers \o team.members)[i] :
        i \in 1..Len(team.maintainers \o team.members)}

\* the people of the directory that have a Slack id
Indexed == {people[i] : i \in {j \in 1..Len(people) : people[j].slack_id /= 0}}

\* a username matches a person when, the profile URL prefix set aside, the
\* two are equal up to letter case
Matches(u, person) == U(u.n, FALSE, FALSE) = U(person.github.n, FALSE, FALSE)

\* the ids of the people matched by a listed username
DesiredIds(team) ==
    {person.slack_id : person \in {q \in Indexed : \E u \in Listed(team) : Matches(u, q)}}

\* the managed groups of Slack with a handle
Managed(handle) ==
    {usergroups[i] : i \in {j \in 1..Len(usergroups) :
        usergroups[j].handle = handle /\ ~usergroups[j].is_external}}

\* the invocations that have a Slack handle to reconcile
Reconciles(f) == f.pc /= "idle" /\ Truthy(f.team.slack)

Kinds(f) == [i \in 1..Len(f.events) |-> f.events[i].kind]

Ops(f) == [i \in 1..Len(f.api) |-> f.api[i].op]

(***************************************************************************)
(* C1  Idempotence: when handleTeam has returned in live mode and is run   *)
(* again for the same team, the second run emits no change event.          *)
(***************************************************************************)
C1_SecondRunSilent ==
    \A p \in Procs :
        (frames[p].pc = "done" /\ frames[p].prior \in {"repeat", "rerun"})
            => frames[p].events = << >>

(***************************************************************************)
(* C2  Convergence: when handleTeam returns in live mode for a team with   *)
(* a handle, Slack's group with that handle carries the desired name and   *)
(* its members are exactly the ids of the listed usernames that match a    *)
(* person of the directory.                                                *)
(***************************************************************************)
C2_Converged ==
    \A p \in Procs :
        (frames[p].pc = "done" /\ Reconciles(frames[p]) /\ ~IS_DRY_RUN)
            => \E g \in Managed(DesiredHandle(frames[p].team)) :
                   /\ g.name = DesiredName(frames[p].team)
                   /\ Ids(g.users) = DesiredIds(frames[p].team)

(***************************************************************************)
(* C3  A dry run issues no mutation: while the process runs with           *)
(* IS_DRY_RUN set, no step changes Slack's groups, no invocation issues    *)
(* or awaits a create, update or users.update call, and the memoized       *)
(* group list, once loaded, is not dropped and keeps the same groups with  *)
(* the same names, handles and member sets (the in-place sort of a users   *)
(* array changes the order of its ids only).                               *)
(***************************************************************************)
SameGroups(before, after) ==
    /\ Len(after) = Len(before)
    /\ \A i \in 1..Len(before) :
           /\ [after[i] EXCEPT !.users = << >>] = [before[i] EXCEPT !.users = << >>]
           /\ Ids(after[i].users) = Ids(before[i].users)

DryFrozen ==
    /\ usergroups' = usergroups
    /\ \A p \in Procs :
           /\ frames'[p].api = << >>
           /\ frames'[p].pc \notin {"create", "refetch", "rename", "setMembers"}
    /\ groupsMemo.loaded =>
           /\ groupsMemo'.loaded
           /\ SameGroups(groupsMemo.value, groupsMemo'.value)

C3_DryRunMutatesNothing ==
    [][(IS_DRY_RUN /\ ~(\E dry \in BOOLEAN : Restart(dry))) => DryFrozen]_vars

\* a dry run that reported a creation and new members, as its second team
C3_Witness ==
    /\ IS_DRY_RUN
    /\ invocations >= 2
    /\ groupsMemo.loaded
    /\ frames[1].pc = "done"
    /\ Kinds(frames[1]) = <<"created", "added">>

(***************************************************************************)
(* C4  Dry-run parity: a live pass emits, for each team, the change events *)
(* a dry-run pass over the same teams, directory and initial groups emits. *)
(***************************************************************************)
\* the events of handleTeam for a team in a dry-run pass: nothing a dry run
\* does changes the group list it loaded when the pass began
DryRunEvents(team, groups, maps) ==
    IF Truthy(team.slack)
    THEN FindGroup(Context([IdleFrame EXCEPT !.team = team, !.groups = groups],
                           Memo(TRUE, groups), maps, TRUE)).f.events
    ELSE << >>

\* DryRunEvents is what the invocations of a dry-run process emit
DryRunEventsAreDryPass ==
    \A p \in Procs :
        (frames[p].pc = "done" /\ IS_DRY_RUN)
            => frames[p].events =
                   DryRunEvents(frames[p].team, ListUserGroups(usergroups0),
                                LoadAllUsers(people))

C4_DryRunParity ==
    \A p \in Procs :
        (frames[p].pc = "done" /\ ~IS_DRY_RUN /\ clean)
            => frames[p].events =
                   DryRunEvents(frames[p].team, ListUserGroups(usergroups0),
                                LoadAllUsers(people))

(***************************************************************************)
(* C5  No-op on a converged group: when the group found by handle carries  *)
(* the desired name and its member set is the resolved desired id set,     *)
(* handleTeam emits no event and issues no Slack call.                     *)
(***************************************************************************)
FoundConverged(f) ==
    /\ Reconciles(f)
    /\ f.pc \in {"setMembers", "done", "failed"}
    /\ ~f.absent
    /\ f.existingGroup.name = DesiredName(f.team)
    /\ Ids(f.existingGroup.users) = Ids(f.expectedUserIds)

C5_ConvergedNoOp ==
    \A p \in Procs :
        FoundConverged(frames[p])
            => /\ frames[p].events = << >>
               /\ frames[p].api = << >>
               /\ frames[p].pc = "done"

(***************************************************************************)
(* C6  Duplicates collapse: an id occurs once in the desired ids compared  *)
(* with the group's members, once in the list reported as added and once   *)
(* in the list passed to users.update.                                     *)
(***************************************************************************)
NoRepeat(list) == \A i, j \in 1..Len(list) : list[i] = list[j] => i = j

C6_DuplicatesCollapse ==
    \A p \in Procs :
        Reconciles(frames[p])
            => /\ NoRepeat(frames[p].expectedUserIds)
               /\ NoRepeat(frames[p].usernamesToAdd)
               /\ \A i \in 1..Len(frames[p].api) : NoRepeat(frames[p].api[i].users)

(***************************************************************************)
(* C7  Creation path: when no group of the list has the team's handle,     *)
(* handleTeam emits one "created" event, before any "added" event, and the *)
(* group it creates (live) or makes up (dry run) carries the team's        *)
(* displayName when that is set and the team's name otherwise.             *)
(***************************************************************************)
Count(list, x) == Cardinality({i \in 1..Len(list) : list[i] = x})

\* the search by handle is over
Searched(f) == Reconciles(f) /\ f.pc \notin {"groups", "users"}

C7_CreationPath ==
    \A p \in Procs :
        LET f == frames[p]
            handle == DesiredHandle(f.team)
            name == DesiredName(f.team)
        IN  Searched(f)
            => /\ Count(Kinds(f), "created") = (IF f.absent THEN 1 ELSE 0)
               /\ f.pc = "create"
                      => /\ f.absent
                         /\ \A i \in 1..Len(f.groups) : f.groups[i].handle /= handle
               /\ f.absent
                      => /\ f.events[1] = CreatedEvent(handle)
                         /\ f.existingGroup /= NoGroup
                                => /\ f.existingGroup.name = name
                                   /\ f.existingGroup.handle = handle
                         /\ \A i \in 1..Len(f.api) :
                                f.api[i].op = "create"
                                    => f.api[i].name = name /\ f.api[i].handle = handle
                         /\ f.pc = "refetch"
                                => usergroups[f.existingGroup.id] =
                                       UserGroup(f.existingGroup.id, name, handle,
                                                 << >>, FALSE)

\* a live creation for a team with a displayName, members added after it
C7_Witness ==
    /\ ~IS_DRY_RUN
    /\ frames[1].pc = "done"
    /\ frames[1].absent
    /\ frames[1].team.displayName /= ""
    /\ Kinds(frames[1]) = <<"created", "added">>
    /\ Ops(frames[1]) = <<"create", "users.update">>

(***************************************************************************)
(* C8  Diff correctness: when the group's member set C differs from the    *)
(* resolved desired set D, the identities reported as added are those of   *)
(* D \ C and the identities reported as removed those of C \ D; an         *)
(* "added" event is emitted iff D \ C is not empty, a "removed" event iff  *)
(* C \ D is not empty, each at most once.                                  *)
(***************************************************************************)
\* the members check is over
MembersChecked(f) == Reconciles(f) /\ f.pc \in {"setMembers", "done"}

\* the items named in the events of a kind
Reported(f, kind) ==
    {t \in UNION {Ids(f.events[i].who) :
                    i \in {j \in 1..Len(f.events) : f.events[j].kind = kind}} :
        IsItem(t)}

\* the ids an item stands for: the id of a mention, the ids of the people
\* of the directory with the username
Denoted(t) ==
    IF t.k = "mention" THEN {t.id}
    ELSE {q.slack_id : q \in {r \in Indexed : StripGithubPrefix(r.github) = t.u}}

C8_DiffCorrect ==
    \A p \in Procs :
        LET f == frames[p]
            current == Ids(f.existingGroup.users)
            desired == Ids(f.expectedUserIds)
        IN  (MembersChecked(f) /\ current /= desired)
            => /\ UNION {Denoted(t) : t \in Reported(f, "added")}
                      = desired \ current
               /\ UNION {Denoted(t) : t \in Reported(f, "removed")}
                      = current \ desired
               /\ Count(Kinds(f), "added")
                      = (IF desired \ current /= {} THEN 1 ELSE 0)
               /\ Count(Kinds(f), "removed")
                      = (IF current \ desired /= {} THEN 1 ELSE 0)

(***************************************************************************)
(* C10  Case-insensitive resolution: the id of every person of the         *)
(* directory whose username equals a listed username up to letter case is  *)
(* among the team's desired ids.                                           *)
(***************************************************************************)
C10_CaseInsensitive ==
    \A p \in Procs :
        MembersChecked(frames[p])
            => DesiredIds(frames[p].team) \subseteq Ids(frames[p].expectedUserIds)

(***************************************************************************)
(* englishCommaJoin as a function of its argument: SpecJoin draws a list   *)
(* of identities and applies the function to it.                           *)
(***************************************************************************)
JoinItems == {<<Plain(alice)>>, <<Plain(bob)>>, <<Code(carol)>>, <<Mention(3)>>}

JoinLists == UNION {[1..n -> JoinItems] : n \in 0..MaxLen}

InitJoin ==
    /\ people = <<Person(alice, 1)>>
    /\ usergroups = << >>
    /\ IS_DRY_RUN = TRUE
    /\ groupsMemo = Memo(FALSE, << >>)
    /\ usersMemo = Memo(FALSE, NoMaps)
    /\ frames = [p \in Procs |-> IdleFrame]
    /\ invocations = 0
    /\ usergroups0 = usergroups
    /\ lastRun = NoRun
    /\ clean = TRUE
    /\ runLog = << >>
    /\ overlapped = FALSE
    /\ arr \in JoinLists
    /\ joined = NotJoined

ApplyJoin ==
    /\ joined = NotJoined
    /\ joined' = englishCommaJoin(arr)
    /\ UNCHANGED <<people, usergroups, IS_DRY_RUN, groupsMemo, usersMemo, frames,
                   invocations, usergroups0, lastRun, clean, runLog, overlapped,
                   arr>>

NextJoin == ApplyJoin

SpecJoin == InitJoin /\ [][NextJoin]_vars

(***************************************************************************)
(* C9  Comma-join formatting: englishCommaJoin of a non-empty list names   *)
(* every element in order: one element as it is, two as "A and B", three   *)
(* or more as "A, B and C".                                                *)
(***************************************************************************)
EnglishList(list) ==
    IF Len(list) = 1 THEN list[1]
    ELSE JoinWith(SubSeq(list, 1, Len(list) - 1), <<Comma>>)
             \o <<Ampersand>> \o list[Len(list)]

C9_CommaJoin ==
    (joined /= NotJoined /\ Len(arr) >= 1) => joined = EnglishList(arr)

(***************************************************************************)
(* C11  Unresolvable usernames are dropped silently: a listed username     *)
(* that matches no person of the directory contributes no id to the        *)
(* resolved ids, makes handleTeam throw nowhere (it fails only at a Slack  *)
(* call), is named in no event, and the ids, the two lists and the         *)
(* membership events are those of the same team without that username.     *)
(***************************************************************************)
Resolvable(u) == \E q \in Indexed : Matches(u, q)

\* the team, its unresolvable usernames struck from both lists
WithoutUnresolvable(team) ==
    [team EXCEPT !.maintainers = SelectSeq(@, Resolvable),
                 !.members = SelectSeq(@, Resolvable)]

\* the members check of the invocation, done over for another team
MembersCheckedFor(f, team) ==
    MembersCheck(Context([f EXCEPT !.team = team, !.events = << >>,
                                   !.expectedUserIds = << >>,
                                   !.usernamesToAdd = << >>,
                                   !.usernamesToRemove = << >>],
                         groupsMemo, usersMemo.value, IS_DRY_RUN)).f

C11_UnresolvableDropped ==
    \A p \in Procs :
        LET f == frames[p]
            unresolvable == {u \in Listed(f.team) : ~Resolvable(u)}
            asIf == MembersCheckedFor(f, WithoutUnresolvable(f.team))
        IN  /\ (Reconciles(f) /\ f.pc = "failed") => f.api /= << >>
            /\ MembersChecked(f)
                   => /\ Ids(f.expectedUserIds) \subseteq DesiredIds(f.team)
                      /\ \A kind \in {"added", "removed"} :
                             \A t \in Reported(f, kind) :
                                 \A u \in unresolvable : t.u.n /= u.n
                      /\ f.expectedUserIds = asIf.expectedUserIds
                      /\ f.usernamesToAdd = asIf.usernamesToAdd
                      /\ f.usernamesToRemove = asIf.usernamesToRemove
                      /\ SelectSeq(f.events,
                                   LAMBDA e : e.kind \in {"added", "removed"})
                             = asIf.events

\* a live run for a team that lists alice and the unresolvable carol: alice
\* is added, users.update is called
C11_Witness ==
    /\ ~IS_DRY_RUN
    /\ frames[1].pc = "done"
    /\ \E u \in Listed(frames[1].team) : ~Resolvable(u)
    /\ \E u \in Listed(frames[1].team) : Resolvable(u)
    /\ frames[1].expectedUserIds = <<1>>
    /\ "added" \in Ids(Kinds(frames[1]))
    /\ "users.update" \in Ids(Ops(frames[1]))

(***************************************************************************)
(* C12  Skip guard: for a team without a group handle (slack absent or     *)
(* false) handleTeam returns at once: the invocation emits no event,       *)
(* issues no Slack call, loads neither the group list nor the directory,   *)
(* and leaves both memoized results and Slack's groups as they were.       *)
(***************************************************************************)
NoHandle(team) == team.slack.isBool /\ ~team.slack.b

C12_SkipGuard ==
    [][\A p \in Procs :
          (frames'[p] /= frames[p] /\ frames'[p].pc /= "idle"
              /\ NoHandle(frames'[p].team))
          => /\ frames'[p].pc = "done"
             /\ frames'[p].events = << >>
             /\ frames'[p].api = << >>
             /\ frames'[p].groups = << >>
             /\ UNCHANGED <<groupsMemo, usersMemo, usergroups>>]_vars

\* the first invocation of a live process is for a team without Slack: it
\* is over and nothing was loaded
C12_Witness ==
    /\ ~IS_DRY_RUN
    /\ frames[1].pc = "done"
    /\ NoHandle(frames[1].team)
    /\ frames[1].team.members = <<bob>>
    /\ ~groupsMemo.loaded
    /\ ~usersMemo.loaded
    /\ usergroups /= << >>

(***************************************************************************)
(* C13  External groups are never touched: a group of Slack flagged        *)
(* is_external is in no group list the plugin holds, is never the group    *)
(* found by handle, its id is the target of no update or users.update      *)
(* call, and the group stays as it was when the process started.           *)
(***************************************************************************)
External(id) == id \in 1..Len(usergroups) /\ usergroups[id].is_external

C13_ExternalUntouched ==
    /\ \A i \in 1..Len(groupsMemo.value) : ~groupsMemo.value[i].is_external
    /\ \A i \in 1..Len(usergroups0) :
           usergroups0[i].is_external => usergroups[i] = usergroups0[i]
    /\ \A p \in Procs :
           LET f == frames[p]
           IN  /\ \A i \in 1..Len(f.groups) : ~f.groups[i].is_external
               /\ ~f.existingGroup.is_external
               /\ ~External(f.existingGroup.id)
               /\ \A i \in 1..Len(f.api) :
                      f.api[i].op \in {"update", "users.update"}
                          => ~External(f.api[i].id)

\* Slack holds the external group ops; a live run for a team with the
\* handle ops created a group of its own and set its members
C13_Witness ==
    /\ ~IS_DRY_RUN
    /\ External(1)
    /\ usergroups[1].handle = "ops"
    /\ frames[1].pc = "done"
    /\ DesiredHandle(frames[1].team) = "ops"
    /\ Ops(frames[1]) = <<"create", "users.update">>
    /\ usergroups[1].users = <<3>>

(***************************************************************************)
(* C14  Single batched membership write: a live invocation calls           *)
(* users.update at most once, as its last call, on the group it found or   *)
(* created, only when the group's member set differs from the resolved     *)
(* desired id set, and with that whole set as the argument.  For the team  *)
(* infra with members alice and bob, alice and bob resolving to 1 and 2    *)
(* and the group infra holding 1, the call is users.update of <<1, 2>>,    *)
(* the only event names bob as added, and there is no rename.              *)
(***************************************************************************)
SampleTeam ==
    [name |-> "infra", displayName |-> "", slack |-> SlackBool(TRUE),
     maintainers |-> << >>, members |-> <<alice, bob>>]

\* the sample scenario: the directory and the group the invocation found
Sample(f) ==
    /\ f.team = SampleTeam
    /\ {<<q.github.n, q.github.cap, q.slack_id>> : q \in Indexed}
           = {<<"alice", FALSE, 1>>, <<"bob", FALSE, 2>>}
    /\ ~f.absent
    /\ [f.existingGroup EXCEPT !.id = 0]
           = UserGroup(0, "infra", "infra", <<1>>, FALSE)

C14_SingleMembersWrite ==
    \A p \in Procs :
        LET f == frames[p]
            current == Ids(f.existingGroup.users)
        IN  (Reconciles(f) /\ ~IS_DRY_RUN)
            => /\ Count(Ops(f), "users.update") <= 1
               /\ f.pc = "setMembers" => current /= Ids(f.expectedUserIds)
               /\ \A i \in 1..Len(f.api) :
                      f.api[i].op = "users.update"
                          => /\ i = Len(f.api)
                             /\ f.api[i].id = f.existingGroup.id
                             /\ Ids(f.api[i].users) = Ids(f.expectedUserIds)
                             /\ Ids(f.api[i].users) \subseteq DesiredIds(f.team)
                             /\ current /= Ids(f.api[i].users)
               /\ (Sample(f) /\ f.pc = "done")
                      => /\ f.api = <<ApiCall("users.update", f.existingGroup.id,
                                              "", "", <<1, 2>>)>>
                         /\ f.events = <<AddedEvent("infra", <<Plain(bob)>>)>>

(***************************************************************************)
(* C15  The name check does nothing after a creation: an invocation, dry   *)
(* or live, that found no group and emitted "created" emits no "renamed"   *)
(* event and neither issues nor awaits an update call.                     *)
(***************************************************************************)
C15_NoRenameAfterCreate ==
    \A p \in Procs :
        LET f == frames[p]
        IN  (f.absent \/ "created" \in Ids(Kinds(f)))
            => /\ "renamed" \notin Ids(Kinds(f))
               /\ "update" \notin Ids(Ops(f))
               /\ f.pc /= "rename"

\* a dry run created the group of a team with a displayName and went
\* through the name check to the members
C15_Witness ==
    /\ IS_DRY_RUN
    /\ frames[1].pc = "done"
    /\ frames[1].team.displayName /= ""
    /\ Kinds(frames[1]) = <<"created", "added">>

\* the same in a live run, past the second getAllGroups()
C15_WitnessLive ==
    /\ ~IS_DRY_RUN
    /\ frames[1].pc = "setMembers"
    /\ frames[1].team.displayName /= ""
    /\ Ops(frames[1]) = <<"create">>

(***************************************************************************)
(* C16  Create, then invalidate: in a live process whose invocations run   *)
(* one after the other, once usergroups.create has succeeded for a handle  *)
(* the memoized list is dropped and loaded again with the new group, and   *)
(* every later invocation for that handle finds the group: no further      *)
(* create call and no further "created" event for the handle follow, so    *)
(* at most one create call per handle succeeds and a second "created"      *)
(* event for a handle comes only after a failed create call.               *)
(***************************************************************************)
Handles == {"infra", "ops"}

\* the entries of runLog of a kind for a handle
Logged(what, handle, ok) ==
    {i \in 1..Len(runLog) : runLog[i] = [what |-> what, handle |-> handle, ok |-> ok]}

\* the invocation made the successful create call itself
Creator(f) == \E i \in 1..Len(f.api) : f.api[i].op = "create"

CreatedAgain(h) ==
    \E i \in Logged("create", h, TRUE) :
        \E j \in (i + 1)..Len(runLog) : runLog[j].handle = h

C17_DuplicateOnlyInRace ==
    /\ \A h \in Handles : CreatedAgain(h) => overlapped
    /\ \A h \in Handles :
           Cardinality(Managed(h)) > Cardinality({g \in Managed(h) :
                                                   g.id <= Len(usergroups0)}) + 1
               => overlapped

\* both invocations found no group infra and both created one
C17_Witness ==
    /\ ~IS_DRY_RUN
    /\ overlapped
    /\ \A p \in Procs :
           /\ frames[p].absent
           /\ DesiredHandle(frames[p].team) = "infra"
           /\ Creator(frames[p])
           /\ frames[p].pc = "done"
    /\ frames[1].existingGroup.id /= frames[2].existingGroup.id
    /\ Cardinality(Managed("infra")) = 2

(***************************************************************************)
(* C18  Recovery after a partial failure: when a live invocation threw at  *)
(* a Slack call and the same team is reconciled again by the next process, *)
(* live and with every call succeeding, Slack's group with the handle ends *)
(* with the desired name and exactly the desired member ids, and no        *)
(* second group is created when the process started with one.              *)
(***************************************************************************)
\* the managed groups with the handle that Slack held at process start
ManagedAtStart(handle) ==
    {usergroups0[i] : i \in {j \in 1..Len(usergroups0) :
        usergroups0[j].handle = handle /\ ~usergroups0[j].is_external}}

C18_RetryConverges ==
    \A p \in Procs :
        LET f == frames[p]
            h == DesiredHandle(f.team)
        IN  (f.prior = "retry" /\ Reconciles(f))
            => /\ (Searched(f) /\ ManagedAtStart(h) /= {})
                      => (~f.absent /\ ~Creator(f))
               /\ f.pc = "done"
                      => /\ Cardinality(Managed(h)) = 1
                         /\ \A g \in Managed(h) :
                                /\ g.name = DesiredName(f.team)
                                /\ Ids(g.users) = DesiredIds(f.team)

(***************************************************************************)
(* C19  The cache reflects the plugin's own writes: in a live process,     *)
(* whenever no invocation is in flight, every group of the memoized list   *)
(* has the name and the member set Slack holds for it.                     *)
(***************************************************************************)
C19_CacheReflectsWrites ==
    (~IS_DRY_RUN /\ groupsMemo.loaded /\ \A p \in Procs : ~Running(p))
        => \A i \in 1..Len(groupsMemo.value) :
               LET g == groupsMemo.value[i]
               IN  /\ g.id \in 1..Len(usergroups)
                   /\ g.name = usergroups[g.id].name
                   /\ Ids(g.users) = Ids(usergroups[g.id].users)

(***************************************************************************)
(* C20  Events precede mutations: an invocation awaits or has issued a     *)
(* create call only after it emitted "created", an update call only after  *)
(* "renamed", a users.update call only after "added" or "removed"; an      *)
(* invocation that emitted no event issues no call.                        *)
(***************************************************************************)
\* the calls the invocation has issued or is about to issue
Issuing(f, op, pc) ==
    f.pc = pc \/ \E i \in 1..Len(f.api) : f.api[i].op = op

C20_EventBeforeCall ==
    \A p \in Procs :
        LET f == frames[p]
            kinds == Ids(Kinds(f))
        IN  /\ Issuing(f, "create", "create") => "created" \in kinds
            /\ Issuing(f, "update", "rename") => "renamed" \in kinds
            /\ Issuing(f, "users.update", "setMembers")
                   => kinds \cap {"added", "removed"} /= {}
            /\ f.events = << >> => f.api = << >>

====
